---------------------------- MODULE Spec2Model ----------------------------
(***************************************************************************)
(* A model of the profiler client (src/lib/Profiler.ts) and of the earlier *)
(* revision that still carried source attribution (src/unnamed/part_003).  *)
(*                                                                         *)
(* The client is single threaded: a handler runs to its next await, so an  *)
(* action is one synchronous run of the code: a public call up to the      *)
(* request it awaits, or the completion of a request with everything the   *)
(* continuations do before they await again.                               *)
(***************************************************************************)
EXTENDS Integers, Sequences, FiniteSets, TLC

(***************************************************************************)
(* Bounds of the model.                                                    *)
(***************************************************************************)
\* public calls made by the embedding page after construction
MaxCalls == 1
\* largest pushDataPoints batch a caller passes
MaxBatch == 2
\* page views opened or closed by the page after construction, when the page
\* views are studied on their own
MaxViews == 2
\* signal dispatches made by the page, when overlapping dispatches are studied
MaxSignals == 2

(***************************************************************************)
(* JavaScript values.                                                      *)
(***************************************************************************)
Undefined == "undefined"
Null == "null"

\* typeof x === 'string'
IsString(x) == x \notin {Undefined, Null}

\* !!x for a string, undefined or null
Truthy(x) == x \notin {Undefined, Null, ""}

PERSONALIZATION_CLASS_NAME == "__prfPrs"
COOKIE_PID_KEY == "__pid"
COOKIE_SID_KEY == "__psid"
\* the expires option of the identifier cookie, in days
PID_EXPIRES == 365

(***************************************************************************)
(* The document.  It is kept as the sequence of its nodes in document      *)
(* order.  Every node names its parent: "html" before or after the body    *)
(* ("pre", "post"), the body, or the element (by id) that contains it.     *)
(* Page elements are the direct children of the body; injected markup is   *)
(* opaque.                                                                 *)
(***************************************************************************)
Elem(id, cls) ==
  [tag |-> "div", id |-> id, cls |-> cls, parent |-> "body", body |-> ""]

\* the page the client is embedded in: two elements of class "s"
InitialDocument == << Elem("slot", "s"), Elem("side", "s") >>

Range(s) == {s[i] : i \in DOMAIN s}

\* the positions of a sequence that hold one of the given values, in order
Positions(s, hits) ==
  LET RECURSIVE Go(_)
      Go(i) == IF i > Len(s) THEN << >>
               ELSE IF s[i] \in hits THEN << i >> \o Go(i + 1) ELSE Go(i + 1)
  IN Go(1)

RemoveAt(s, i) == SubSeq(s, 1, i - 1) \o SubSeq(s, i + 1, Len(s))

InsertAt(s, i, x) == SubSeq(s, 1, i - 1) \o << x >> \o SubSeq(s, i, Len(s))

IsMarker(n) == n.cls = PERSONALIZATION_CLASS_NAME

\* document.getElementsByClassName(PERSONALIZATION_CLASS_NAME), as positions
MarkerPositions(doc) == Positions(doc, {n \in Range(doc) : IsMarker(n)})

MarkerCount(doc) == Len(MarkerPositions(doc))


\* the markup in a span without the marker class
wrapDomUnmarked(html) ==
  [tag |-> "span", id |-> "", cls |-> "", parent |-> "", body |-> html]

\* wrapDom: the markup inside a span of the marker class
wrapDom(html) ==
  [tag |-> "span", id |-> "", cls |-> PERSONALIZATION_CLASS_NAME, parent |-> "",
   body |-> html]

ScriptNode(js) ==
  [tag |-> "script", id |-> "", cls |-> "", parent |-> "body", body |-> js]

\* removePersonalizations: the loop runs its index over the live collection,
\* which loses the element each remove() takes out of the document.
RECURSIVE RemoveLoop(_, _)
RemoveLoop(doc, i) ==
  LET elements == MarkerPositions(doc)
  IN IF i < Len(elements)
     THEN RemoveLoop(RemoveAt(doc, elements[i + 1]), i + 1)
     ELSE doc

removePersonalizations(doc) == RemoveLoop(doc, 0)

\* A selector: by id, by class, or absent (by = "none").
NoSelector == [by |-> "none", name |-> ""]
ById(x) == [by |-> "id", name |-> x]
ByClass(x) == [by |-> "class", name |-> x]

IsPageElement(n) == n.tag = "div" /\ n.parent = "body"

\* document.querySelectorAll(sel ? sel : 'body'), as the ids of the targets in
\* document order ("body" for the body)
querySelectorAll(doc, sel) ==
  IF sel.by = "none" THEN << "body" >>
  ELSE LET Hit(n) == /\ IsPageElement(n)
                     /\ \/ sel.by = "id" /\ n.id = sel.name
                        \/ sel.by = "class" /\ n.cls = sel.name
           at == Positions(doc, {n \in Range(doc) : Hit(n)})
       IN [k \in 1..Len(at) |-> doc[at[k]].id]

IsPre(n) == n.parent = "pre"
IsPost(n) == n.parent = "post"
PreCount(doc) == Len(Positions(doc, {n \in Range(doc) : IsPre(n)}))
PostCount(doc) == Len(Positions(doc, {n \in Range(doc) : IsPost(n)}))

\* elem.innerHTML = node (place = "replace") or
\* elem.insertAdjacentHTML(place, node), for the body
PlaceInBody(doc, place, node) ==
  LET pre == PreCount(doc)
      end == Len(doc) - PostCount(doc)
  IN CASE place = "replace" ->
            SubSeq(doc, 1, pre) \o << [node EXCEPT !.parent = "body"] >>
              \o SubSeq(doc, end + 1, Len(doc))
       [] place = "afterbegin" -> InsertAt(doc, pre + 1, [node EXCEPT !.parent = "body"])
       [] place = "beforeend" -> InsertAt(doc, end + 1, [node EXCEPT !.parent = "body"])
       [] place = "beforebegin" -> InsertAt(doc, pre + 1, [node EXCEPT !.parent = "pre"])
       [] place = "afterend" -> InsertAt(doc, end + 1, [node EXCEPT !.parent = "post"])

\* the same for the page element with the given id
PlaceInElement(doc, id, place, node) ==
  LET at == Positions(doc, {n \in Range(doc) : IsPageElement(n) /\ n.id = id})
      kids == Len(Positions(doc, {n \in Range(doc) : n.parent = id}))
  IN IF at = << >> THEN doc
     ELSE LET k == at[1]
          IN CASE place = "replace" ->
                    SubSeq(doc, 1, k) \o << [node EXCEPT !.parent = id] >>
                      \o SubSeq(doc, k + kids + 1, Len(doc))
               [] place = "afterbegin" -> InsertAt(doc, k + 1, [node EXCEPT !.parent = id])
               [] place = "beforeend" ->
                    InsertAt(doc, k + kids + 1, [node EXCEPT !.parent = id])
               [] place = "beforebegin" -> InsertAt(doc, k, [node EXCEPT !.parent = "body"])
               [] place = "afterend" ->
                    InsertAt(doc, k + kids + 1, [node EXCEPT !.parent = "body"])

Place(doc, target, place, node) ==
  IF target = "body" THEN PlaceInBody(doc, place, node)
  ELSE PlaceInElement(doc, target, place, node)

\* the loop over the elements a variant's selector matched
RECURSIVE PlaceAll(_, _, _, _)
PlaceAll(doc, elems, place, node) ==
  IF elems = << >> THEN doc
  ELSE PlaceAll(Place(doc, Head(elems), place, node), Tail(elems), place, node)

\* one round of the loop over the personalizations: the markup, as the given
\* node, then the script
InsertPersonalization(doc, ps, node) ==
  LET withHtml ==
        IF Truthy(ps.html)
        THEN PlaceAll(doc, querySelectorAll(doc, ps.htmlQuerySelector),
                      IF Truthy(ps.htmlPlacement) THEN ps.htmlPlacement ELSE "beforeend",
                      node)
        ELSE doc
  IN IF Truthy(ps.js)
     THEN InsertAt(withHtml, Len(withHtml) - PostCount(withHtml) + 1, ScriptNode(ps.js))
     ELSE withHtml

ApplyPersonalization(doc, ps) == InsertPersonalization(doc, ps, wrapDom(ps.html))

RECURSIVE ApplyPersonalizations(_, _)
ApplyPersonalizations(doc, personalizations) ==
  IF personalizations = << >> THEN doc
  ELSE ApplyPersonalizations(ApplyPersonalization(doc, Head(personalizations)),
                             Tail(personalizations))

\* what handlePersonalizations does to the document once the fetch has resolved
Refresh(doc, personalizations) ==
  ApplyPersonalizations(removePersonalizations(doc), personalizations)


(***************************************************************************)
(* Page metadata.  A content attribute is a sequence of characters.        *)
(***************************************************************************)
\* s.split(sep): the pieces between the separators, at least one
RECURSIVE Split(_, _)
Split(s, sep) ==
  LET at == Positions(s, {sep})
  IN IF at = << >> THEN << s >>
     ELSE << SubSeq(s, 1, at[1] - 1) >> \o Split(SubSeq(s, at[1] + 1, Len(s)), sep)

Digits == << "0", "1", "2", "3", "4", "5", "6", "7", "8", "9" >>
IsDigit(c) == \E d \in 1..10 : Digits[d] = c
DigitValue(c) == (CHOOSE d \in 1..10 : Digits[d] = c) - 1

\* parseInt of an unsigned decimal: the leading digits, NaN when there are none
RECURSIVE ParseDigits(_, _)
ParseDigits(s, acc) ==
  IF s = << >> \/ ~IsDigit(Head(s)) THEN acc
  ELSE ParseDigits(Tail(s), 10 * acc + DigitValue(Head(s)))

parseInt(s) ==
  IF s = << >> \/ ~IsDigit(Head(s)) THEN [kind |-> "NaN", n |-> 0]
  ELSE [kind |-> "number", n |-> ParseDigits(s, 0)]

NoValue == [kind |-> "undefined", n |-> 0]

\* the data points readMeta collects from one profiler:interests content
RECURSIVE SegmentsToDataPoints(_)
SegmentsToDataPoints(contents) ==
  IF contents = << >> THEN << >>
  ELSE LET contentArr == Split(Head(contents), ":")
           dp == [dataPoint |-> contentArr[1],
                  value |-> IF Len(contentArr) > 1 THEN parseInt(contentArr[2])
                            ELSE NoValue]
       IN (IF Len(contentArr) > 0 THEN << dp >> ELSE << >>)
            \o SegmentsToDataPoints(Tail(contents))

\* metas: the content attributes of the profiler:interests tags of the page
\* (a missing attribute is the empty content)
RECURSIVE DpsToPush(_)
DpsToPush(metas) ==
  IF metas = << >> THEN << >>
  ELSE SegmentsToDataPoints(Split(Head(metas), ",")) \o DpsToPush(Tail(metas))


(***************************************************************************)
(* The state of one Profiler instance and of the page around it.           *)
(***************************************************************************)
VARIABLES
  personalize,     \* this.personalize
  pid,             \* this.pid
  sid,             \* this.sid
  cookies,         \* the cookie jar: key -> [value, expires]
  pageView,        \* this.pageView
  dpDelayTimerId,  \* this.dpDelayTimerId
  document,        \* the nodes of the page, in document order
  metas,           \* the profiler:interests contents of the page
  sendBeacon,      \* 'sendBeacon' in navigator
  timers,          \* the timeouts window holds, each with the data points to push
  nextId,          \* the id of the next request or timeout
  listeners,       \* the unload listeners registered on window
  calls,           \* the HTTP requests in flight
  batches,         \* the pushDataPoints activations so far: the data points
                   \* passed (n), the requests issued, those not yet settled
                   \* (left), whether one was rejected, and the calls of
                   \* handlePersonalizations made
  ncalls,          \* public calls and page events so far
  \* what an observer of the client has seen
  lastDone,        \* the request that ended last
  lastRef,         \* the last truthy ref a response delivered
  lastBeacon,      \* the last beacon handed to navigator.sendBeacon
  nbeacons,        \* how many beacons were sent
  sessionRequests, \* how many contacts/new-session requests were issued
  escaped,         \* whether a public call's promise rejected
  clock,           \* what new Date() reads
  openViews,       \* page views opened and not closed since
  viewsOpened,     \* page views opened so far
  lastClosed,      \* the page view endPageView closed last, with its exit
  lastPageOp,      \* the page operation that ran last
  constructed,     \* whether the constructor returned
  \* the revision with source attribution (src/unnamed/part_003)
  contactRef,          \* this.contactRef
  profilerRef,         \* localStorage's profilerRef item
  hasPersonalized,     \* this.hasPersonalized
  hasRegisteredSource, \* this.hasRegisteredSource
  sourceRequests,      \* how many contacts/<ref>/sources requests were issued
  ingestRefreshes,     \* how many refreshes network started on ingesting a ref
  refAtStart           \* the contactRef the constructor found

vars ==
  << personalize, pid, sid, cookies, pageView, dpDelayTimerId, document, metas,
     sendBeacon, timers, nextId, listeners, calls, batches, ncalls, lastDone,
     lastRef, lastBeacon, nbeacons, sessionRequests, escaped, clock, openViews,
     viewsOpened, lastClosed, lastPageOp, constructed, contactRef, profilerRef, hasPersonalized,
     hasRegisteredSource, sourceRequests, ingestRefreshes, refAtStart >>

\* the state of the revision with source attribution
attribution ==
  << contactRef, profilerRef, hasPersonalized, hasRegisteredSource, sourceRequests,
     ingestRefreshes, refAtStart >>

LOCATION == "/"

Cookie(v, days) == [value |-> v, expires |-> days]
NoCookie == Cookie(Undefined, 0)

\* cookies.get(key)
CookieGet(jar, key) == jar[key].value

\* the fields of this that the identity helpers write
Me(p, s, jar) == [pid |-> p, sid |-> s, cookies |-> jar]

\* setPid keeping the first identifier it was given
setPidOnce(me, p) ==
  IF Truthy(p) /\ ~IsString(me.pid)
  THEN [me EXCEPT !.pid = p, !.cookies[COOKIE_PID_KEY] = Cookie(p, PID_EXPIRES)]
  ELSE me

\* setPid without its test of the value
setPidUnguarded(me, p) ==
  [me EXCEPT !.pid = p, !.cookies[COOKIE_PID_KEY] = Cookie(p, PID_EXPIRES)]

setPid(me, p) ==
  IF Truthy(p)
  THEN [me EXCEPT !.pid = p, !.cookies[COOKIE_PID_KEY] = Cookie(p, PID_EXPIRES)]
  ELSE me

setSid(me, s) ==
  IF Truthy(s)
  THEN [me EXCEPT !.sid = s, !.cookies[COOKIE_SID_KEY] = Cookie(s, 0)]
  ELSE me

readPidFromCookie(me) ==
  IF IsString(CookieGet(me.cookies, COOKIE_PID_KEY))
  THEN [me EXCEPT !.pid = CookieGet(me.cookies, COOKIE_PID_KEY)]
  ELSE me

readSidFromCookie(me) ==
  IF IsString(CookieGet(me.cookies, COOKIE_SID_KEY))
  THEN [me EXCEPT !.sid = CookieGet(me.cookies, COOKIE_SID_KEY)]
  ELSE me

(***************************************************************************)
(* Requests.  A record of calls is one HTTP request in flight: the         *)
(* operation that awaits it and the ref it carries.  The other fields are  *)
(* bookkeeping: the identifier at dispatch (pidAt), the request whose      *)
(* completion dispatched this one (by, 0: none) and the pushDataPoints     *)
(* activation it belongs to (batch, 0: none).                              *)
(***************************************************************************)
Request(id, kind, op, ref, pidAt, by, batch) ==
  [id |-> id, kind |-> kind, op |-> op, ref |-> ref, pidAt |-> pidAt, by |-> by,
   batch |-> batch]

\* network: data['ref'] = this.pid when the identifier is a string
NetworkRef(p, dataRef) == IF IsString(p) THEN p ELSE dataRef

network(id, p, op, dataRef, by, batch) ==
  Request(id, "network", op, NetworkRef(p, dataRef), p, by, batch)

\* the query without the identifier
PersonalizationRefNone(p) == Undefined

\* getPersonalizations: the query carries ref: this.pid
PersonalizationRef(p) == p

getPersonalizations(id, p, op, by, batch) ==
  Request(id, "personalization", op, PersonalizationRef(p), p, by, batch)

\* handlePersonalizations up to its await: nothing when personalize is off.
\* Its request is told from the others by what started it, so it takes no id.
handlePersonalizations(on, p, by, batch) ==
  IF ~on THEN {} ELSE {getPersonalizations(0, p, "handlePersonalizations", by, batch)}

\* newSession up to its await: a request only while there is no session id
newSession(id, p, s) ==
  IF ~Truthy(s) THEN {network(id, p, "newSession", Undefined, 0, 0)} ELSE {}

(***************************************************************************)
(* Page views.                                                             *)
(***************************************************************************)
NoPageView == [open |-> FALSE, url |-> "", enter |-> 0, exit |-> 0]

NoBeacon ==
  [ref |-> Undefined, pidAt |-> Undefined, sessionId |-> Undefined, url |-> "",
   enter |-> 0, exit |-> 0]

\* endPageView: data.append('ref', this.pid)
BeaconRef(p) == p

\* a beacon whether or not the visitor is known
SendsBeaconUnknown(pv, p, can) == pv.open /\ can

\* endPageView: whether it sends a beacon
SendsBeacon(pv, p, can) == pv.open /\ can /\ IsString(p)

\* the beacon endPageView sends
Beacon(pv, p, s, now) ==
  [ref |-> BeaconRef(p), pidAt |-> p, sessionId |-> IF Truthy(s) THEN s ELSE Undefined,
   url |-> pv.url, enter |-> pv.enter, exit |-> now]

\* listenForPageUnload: window.addEventListener('unload', ...)
listenForPageUnload(n) == n + 1

\* readMeta: the timeout it sets when the page declares interests
readMetaTimers(m, id) ==
  IF Len(DpsToPush(m)) > 0 THEN {[id |-> id, dps |-> DpsToPush(m)]} ELSE {}

(***************************************************************************)
(* What the page and the server may hand to the client.                    *)
(***************************************************************************)
StoredPids == {Undefined, "v0"}
StoredSids == {Undefined, "s0"}
\* a ref the caller itself puts into the data of updateProfile or collect
DataRefs == {Undefined, "mine"}
PageUrls == {Undefined, "/next"}
MetaContents == { << >>, << << "a", ":", "5" >> >> }
\* pages with one profiler:interests tag: "s:5,m", an empty content, "a,,b"
MetaInputs ==
  { << << "s", ":", "5", ",", "m" >> >>, << << >> >>, << << "a", ",", ",", "b" >> >> }

Rejected == [kind |-> "rejected", status |-> 0, ref |-> Undefined, sessionId |-> Undefined]
NullBody == [kind |-> "null", status |-> 200, ref |-> Undefined, sessionId |-> Undefined]
ObjectBody(r, s) == [kind |-> "object", status |-> 200, ref |-> r, sessionId |-> s]
\* an object body under another status
StatusBody(st, r, s) == [ObjectBody(r, s) EXCEPT !.status = st]

\* how a request of network can end: fetch or the body parse fails, or the
\* body is JSON null, or it is an object that may carry ref and sessionId
\* (Undefined: the field is not in the object)
Refs == {Undefined, "", "v1", "v2"}
SessionIds(op) == IF op = "newSession" THEN {Undefined, "s1"} ELSE {Undefined}
NetworkOutcomes(op) ==
  {Rejected, NullBody} \cup {ObjectBody(r, s) : r \in Refs, s \in SessionIds(op)}
AnyOutcome == NetworkOutcomes("newSession")
\* the server answers with an error status and a JSON body
ErrorOutcomes(op) == {StatusBody(500, r, s) : r \in {Undefined, "v1"}, s \in SessionIds(op)}
\* the server opens another session for a second contacts/new-session request
OtherSessions(op) == IF op = "newSession" THEN {ObjectBody(Undefined, "s2")} ELSE {}
\* every way a request can end
Responses(op) == NetworkOutcomes(op) \cup ErrorOutcomes(op) \cup OtherSessions(op)

Personalization(html, sel, place, js) ==
  [html |-> html, htmlQuerySelector |-> sel, htmlPlacement |-> place, js |-> js]

PsSlot == Personalization("<b>hi</b>", ById("slot"), "replace", Null)
PsEach == Personalization("<i>yo</i>", ByClass("s"), Null, "track()")

PsBody == Personalization("<u>ad</u>", NoSelector, "afterbegin", Null)

\* a variant without selector in mode replace: its target is the body
PsWipe == Personalization("<p>all</p>", NoSelector, "replace", Null)

PersonalizationLists == { << >>, << PsSlot >> }

\* how the personalization fetch can end
FetchRejected == [kind |-> "rejected", status |-> 0, list |-> << >>]
FetchBody(status, list) == [kind |-> "json", status |-> status, list |-> list]
FetchBadBody(status) == [kind |-> "badjson", status |-> status, list |-> << >>]
Statuses == {200, 500}
FetchOutcomes(lists) ==
  {FetchRejected} \cup {FetchBadBody(st) : st \in Statuses}
    \cup {FetchBody(st, l) : st \in Statuses, l \in lists}

\* lastDone: the request that ended (id, op), what the server answered (net
\* or fetch), whether the promise was fulfilled (st), whether the code after
\* the await called handlePersonalizations (refreshed), and what
\* getPersonalizations returned (result)
Done(id, op, st, refreshed, net, fetch, result) ==
  [id |-> id, op |-> op, st |-> st, refreshed |-> refreshed, net |-> net,
   fetch |-> fetch, result |-> result]

NoneDone == Done(0, "", "", FALSE, Rejected, FetchRejected, << >>)

(***************************************************************************)
(* The constructor: the state it leaves is the initial state.              *)
(***************************************************************************)
\* the constructor, on a page whose metadata is one of the given contents
construct(contents) ==
  \E on \in BOOLEAN, p0 \in StoredPids, s0 \in StoredSids, m \in contents,
     can \in BOOLEAN :
    LET jar == [k \in {COOKIE_PID_KEY, COOKIE_SID_KEY} |->
                 IF k = COOKIE_PID_KEY
                 THEN (IF p0 = Undefined THEN NoCookie ELSE Cookie(p0, PID_EXPIRES))
                 ELSE (IF s0 = Undefined THEN NoCookie ELSE Cookie(s0, 0))]
        me == readSidFromCookie(readPidFromCookie(Me(Undefined, Undefined, jar)))
        first == handlePersonalizations(on, me.pid, 0, 0)
        second == newSession(1, me.pid, me.sid)
    IN /\ personalize = on
       /\ pid = me.pid
       /\ sid = me.sid
       /\ cookies = jar
       /\ metas = m
       /\ sendBeacon = can
       /\ document = InitialDocument
       /\ calls = first \cup second
       /\ sessionRequests = Cardinality(second)
       /\ batches = << >>
       /\ pageView = [open |-> TRUE, url |-> LOCATION, enter |-> 0, exit |-> 0]
       /\ timers = readMetaTimers(m, 2)
       /\ dpDelayTimerId = IF readMetaTimers(m, 2) = {} THEN 0 ELSE 2
       /\ nextId = 3
       /\ listeners = listenForPageUnload(0)
       /\ openViews = 1
       /\ viewsOpened = 1
       /\ lastClosed = NoPageView
       /\ lastPageOp = ""
       /\ constructed = TRUE
       /\ lastBeacon = NoBeacon
       /\ nbeacons = 0
       /\ clock = 1
       /\ ncalls = 0
       /\ escaped = FALSE
       /\ lastRef = Undefined
       /\ lastDone = NoneDone
       /\ contactRef = Null
       /\ profilerRef = Null
       /\ hasPersonalized = FALSE
       /\ hasRegisteredSource = FALSE
       /\ sourceRequests = 0
       /\ ingestRefreshes = 0
       /\ refAtStart = Null

Init == construct(MetaContents)

(***************************************************************************)
(* Public calls, each up to its first await.                               *)
(***************************************************************************)
views == << openViews, viewsOpened, lastClosed, lastPageOp >>
page ==
  << pageView, dpDelayTimerId, timers, listeners, lastBeacon, nbeacons, clock, views >>
identity == << pid, sid, cookies, lastRef >>
fixed == << personalize, metas, sendBeacon, constructed, attribution >>
seen == << lastDone, escaped >>

dispatch(limit, op, dataRef) ==
  /\ ncalls < limit
  /\ calls' = calls \cup {network(nextId, pid, op, dataRef, 0, 0)}
  /\ nextId' = nextId + 1
  /\ ncalls' = ncalls + 1
  /\ UNCHANGED << identity, fixed, page, seen, document, batches, sessionRequests >>

Dispatch(op, dataRef) == dispatch(MaxCalls, op, dataRef)

UpdateProfile == \E d \in DataRefs : Dispatch("updateProfile", d)

PushDataPoint == Dispatch("pushDataPoint", Undefined)

PushAction == Dispatch("pushAction", Undefined)

Collect == \E d \in DataRefs : Dispatch("collect", d)

NewSession ==
  /\ ncalls < MaxCalls
  /\ calls' = calls \cup newSession(nextId, pid, sid)
  /\ sessionRequests' = sessionRequests + Cardinality(newSession(nextId, pid, sid))
  /\ nextId' = nextId + Cardinality(newSession(nextId, pid, sid))
  /\ ncalls' = ncalls + 1
  /\ UNCHANGED << identity, fixed, page, seen, document, batches >>

GetPersonalizations ==
  /\ ncalls < MaxCalls
  /\ calls' = calls \cup {getPersonalizations(nextId, pid, "getPersonalizations", 0, 0)}
  /\ nextId' = nextId + 1
  /\ ncalls' = ncalls + 1
  /\ UNCHANGED << identity, fixed, page, seen, document, batches, sessionRequests >>

\* pushDataPoints up to await Promise.all: one request per data point; with no
\* data point Promise.all is already fulfilled and the refresh follows at once
pushDataPoints(n) ==
  LET b == Len(batches) + 1
      promises == {network(nextId + k - 1, pid, "pushDataPoints", Undefined, 0, b) :
                     k \in 1..n}
      refresh == IF n = 0 THEN handlePersonalizations(personalize, pid, 0, b) ELSE {}
  IN /\ batches' = Append(batches, [n |-> n, issued |-> Cardinality(promises),
                                    left |-> n, rejected |-> FALSE, failed |-> FALSE,
                                    refreshes |-> IF n = 0 THEN 1 ELSE 0])
     /\ calls' = calls \cup promises \cup refresh
     /\ nextId' = nextId + n

PushDataPoints ==
  \E n \in 0..MaxBatch :
    /\ ncalls < MaxCalls
    /\ pushDataPoints(n)
    /\ ncalls' = ncalls + 1
    /\ UNCHANGED << identity, fixed, page, seen, document, sessionRequests >>

\* the callback of the timeout readMeta set
TimerFires ==
  \E t \in timers :
    /\ timers' = timers \ {t}
    /\ pushDataPoints(Len(t.dps))
    /\ UNCHANGED << identity, fixed, seen, pageView, dpDelayTimerId, listeners,
                    lastBeacon, nbeacons, clock, views, document, ncalls,
                    sessionRequests >>

ReadMeta ==
  /\ ncalls < MaxCalls
  /\ timers' = timers \cup readMetaTimers(metas, nextId)
  /\ dpDelayTimerId' = IF readMetaTimers(metas, nextId) = {} THEN dpDelayTimerId
                       ELSE nextId
  /\ nextId' = nextId + Cardinality(readMetaTimers(metas, nextId))
  /\ ncalls' = ncalls + 1
  /\ lastPageOp' = "readMeta"
  /\ UNCHANGED << identity, fixed, seen, pageView, listeners, lastBeacon, nbeacons,
                  clock, openViews, viewsOpened, lastClosed, document, calls, batches,
                  sessionRequests >>

\* endPageView, but for its last assignment: the exit stamp and the beacon
endPageView ==
  /\ IF SendsBeacon(pageView, pid, sendBeacon)
     THEN /\ lastBeacon' = Beacon(pageView, pid, sid, clock)
          /\ nbeacons' = nbeacons + 1
     ELSE UNCHANGED << lastBeacon, nbeacons >>
  /\ lastClosed' = IF pageView.open THEN [pageView EXCEPT !.exit = clock] ELSE lastClosed

\* endPageView leaving the page view as it is
EndedStillOpen(pv) == pv

\* endPageView's last assignment: this.pageView = undefined
Ended(pv) == NoPageView

\* the page views left open by endPageView
AfterEnd(pv, n) == IF pv.open THEN n - 1 ELSE n

\* newPageView never calls endPageView
ClosesFirstNever(pv) == FALSE

\* newPageView: if (!!this.pageView) this.endPageView()
ClosesFirst(pv) == pv.open

\* newPageView registers another unload listener
newPageViewListenersAgain(n) == n + 1

\* newPageView registers no listener
newPageViewListeners(n) == n

\* newPageView: close the open page view, open the next, clear the pending
\* timeout, read the metadata again
newPageView(limit) ==
  \E url \in PageUrls :
    LET kept == IF dpDelayTimerId # 0
                THEN {t \in timers : t.id # dpDelayTimerId} ELSE timers
    IN /\ ncalls < limit
       /\ IF ClosesFirst(pageView)
          THEN endPageView /\ openViews' = AfterEnd(pageView, openViews) + 1
          ELSE /\ openViews' = openViews + 1
               /\ UNCHANGED << lastBeacon, nbeacons, lastClosed >>
       /\ viewsOpened' = viewsOpened + 1
       /\ lastPageOp' = "newPageView"
       /\ listeners' = newPageViewListeners(listeners)
       /\ pageView' = [open |-> TRUE, url |-> IF Truthy(url) THEN url ELSE LOCATION,
                       enter |-> clock, exit |-> 0]
       /\ timers' = kept \cup readMetaTimers(metas, nextId)
       /\ dpDelayTimerId' = IF readMetaTimers(metas, nextId) = {} THEN dpDelayTimerId
                            ELSE nextId
       /\ nextId' = nextId + Cardinality(readMetaTimers(metas, nextId))
       /\ clock' = clock + 1
       /\ ncalls' = ncalls + 1
       /\ UNCHANGED << identity, fixed, seen, document, calls, batches,
                       sessionRequests >>

NewPageView == newPageView(MaxCalls)

\* the unload event: the registered listener runs endPageView
unload(limit) ==
  /\ ncalls < limit
  /\ listeners > 0
  /\ endPageView
  /\ pageView' = Ended(pageView)
  /\ openViews' = AfterEnd(pageView, openViews)
  /\ viewsOpened' = viewsOpened
  /\ lastPageOp' = "unload"
  /\ clock' = clock + 1
  /\ ncalls' = ncalls + 1
  /\ UNCHANGED << identity, fixed, seen, dpDelayTimerId, timers, nextId, listeners,
                  document, calls, batches, sessionRequests >>

Unload == unload(MaxCalls)

(***************************************************************************)
(* Completions.  A request of network ends; the rest of network runs, and  *)
(* then what the caller does after its await.                              *)
(***************************************************************************)
\* network handing the ref of every object body to an unguarded setPid
IngestAbsent(me, out) ==
  IF out.kind = "object" THEN setPidUnguarded(me, out.ref) ELSE me

\* network after its awaits: a truthy body with a ref field goes to setPid
Ingest(me, out) ==
  IF out.kind = "object" /\ out.ref # Undefined THEN setPid(me, out.ref) ELSE me

\* newSession after its await: a truthy body with a sessionId goes to setSid
IngestSession(me, op, out) ==
  IF op = "newSession" /\ out.kind = "object" /\ out.sessionId # Undefined
  THEN setSid(me, out.sessionId)
  ELSE me

\* pushAction without its call of handlePersonalizations
RefreshesAfterNoAction(op) == op \in {"updateProfile", "pushDataPoint", "newSession"}

\* the operations that call handlePersonalizations once their request resolved
RefreshesAfter(op) == op \in {"updateProfile", "pushDataPoint", "pushAction", "newSession"}

\* a refresh after each request of the batch instead of after Promise.all
BatchFulfilledEach(bt, ok) == ~bt.rejected /\ ok

\* Promise.all of a batch is fulfilled by the request that settles last, when
\* none was rejected
BatchFulfilled(bt, ok) == bt.left = 1 /\ ~bt.rejected /\ ok

\* the refresh reads the identifier as it was before the response
RefreshPidStale(before, after) == before

\* the identifier the caller's handlePersonalizations reads: network has
\* ingested the response before it returns to the caller
RefreshPid(before, after) == after

\* the operations with no catch around their await
Uncaught(op) == op = "collect"

\* a transport failure: fetch rejected, or the status is not a success
TransportFailed(out) == out.kind = "rejected" \/ out.status # 200

\* a request of network ends in one of the given ways
NetworkEnds(outcomes) ==
  \E c \in calls :
    /\ c.kind = "network"
    /\ \E out \in Responses(c.op) \cap outcomes :
         LET ok == out.kind # "rejected"
             me == IngestSession(Ingest(Me(pid, sid, cookies), out), c.op, out)
             b == c.batch
             refresh == /\ ok
                        /\ \/ RefreshesAfter(c.op)
                           \/ b > 0 /\ BatchFulfilled(batches[b], ok)
             sent == IF refresh
                     THEN handlePersonalizations(personalize, RefreshPid(pid, me.pid),
                                                 c.id, b)
                     ELSE {}
         IN /\ pid' = me.pid
            /\ sid' = me.sid
            /\ cookies' = me.cookies
            /\ lastRef' = IF out.kind = "object" /\ Truthy(out.ref) THEN out.ref
                          ELSE lastRef
            /\ calls' = (calls \ {c}) \cup sent
            /\ nextId' = nextId
            /\ batches' = IF b = 0 THEN batches
                          ELSE [batches EXCEPT ![b].left = @ - 1,
                                               ![b].rejected = @ \/ ~ok,
                                               ![b].failed = @ \/ TransportFailed(out),
                                               ![b].refreshes = @ + IF refresh THEN 1 ELSE 0]
            /\ lastDone' = Done(c.id, c.op, IF ok THEN "ok" ELSE "failed", refresh, out,
                                FetchRejected, << >>)
            /\ escaped' = (escaped \/ (~ok /\ Uncaught(c.op)))
            /\ UNCHANGED << fixed, page, document, ncalls, sessionRequests >>

\* getPersonalizations without its test of the status
getPersonalizationsAnyStatus(out) ==
  IF out.kind = "json" THEN [st |-> "ok", list |-> out.list]
  ELSE [st |-> "ok", list |-> << >>]

\* getPersonalizations after its awaits
getPersonalizationsResult(out) ==
  IF out.kind = "rejected" THEN [st |-> "ok", list |-> << >>]
  ELSE IF out.status = 200
       THEN (IF out.kind = "badjson" THEN [st |-> "ok", list |-> << >>]
             ELSE [st |-> "ok", list |-> out.list])
       ELSE [st |-> "ok", list |-> << >>]

\* The personalization fetch ends; handlePersonalizations, when it is the
\* caller, removes the marked nodes and applies what was fetched.
PersonalizationEnds(Outcomes) ==
  \E c \in calls :
    /\ c.kind = "personalization"
    /\ \E out \in Outcomes :
         LET res == getPersonalizationsResult(out)
         IN /\ calls' = calls \ {c}
            /\ document' = IF c.op = "handlePersonalizations" /\ res.st = "ok"
                           THEN Refresh(document, res.list)
                           ELSE document
            /\ lastDone' = Done(c.id, c.op, res.st, FALSE, Rejected, out, res.list)
            /\ escaped' = (escaped \/ (res.st # "ok" /\ c.op = "getPersonalizations"))
            /\ UNCHANGED << identity, fixed, page, batches, ncalls, nextId,
                            sessionRequests >>

NetworkCompletes == NetworkEnds(AnyOutcome)

PersonalizationCompletes == PersonalizationEnds(FetchOutcomes(PersonalizationLists))

(***************************************************************************)
(* Specifications.  The client's two sides meet only in the identifier, so *)
(* each is explored with the other held still.                             *)
(***************************************************************************)
\* the page stays as it was loaded and declares no interests
QuietPage == metas = << >> /\ sendBeacon

\* Signal dispatch, session creation and collect.
Next ==
  \/ UpdateProfile
  \/ PushDataPoint
  \/ PushAction
  \/ Collect
  \/ NewSession
  \/ NetworkCompletes
  \/ PersonalizationCompletes

InitQuiet == Init /\ QuietPage

Spec == InitQuiet /\ [][Next]_vars

\* Batches of data points and the public personalization fetch.  The session
\* is the stored one, so the requests of network are those of the batches.
StoredSession == sid = "s0"

NextBatch ==
  \/ PushDataPoints
  \/ GetPersonalizations
  \/ NetworkCompletes
  \/ PersonalizationCompletes

InitBatch == Init /\ QuietPage /\ StoredSession

SpecBatch == InitBatch /\ [][NextBatch]_vars

\* Page views, the metadata timer and the unload beacon.  The requests are
\* the constructor's and the timer's batches.
PageOutcomes == {Rejected, ObjectBody(Undefined, Undefined), ObjectBody("v1", Undefined)}

NextPage ==
  \/ ReadMeta
  \/ NewPageView
  \/ Unload
  \/ TimerFires
  \/ NetworkEnds(PageOutcomes)
  \/ PersonalizationEnds({FetchBody(200, << >>)})

SpecPage == Init /\ [][NextPage]_vars


\* The metadata of the page: the constructor reads it, and the timeout it
\* sets pushes what was read.
NextMeta ==
  \/ ReadMeta
  \/ TimerFires
  \/ NetworkEnds(PageOutcomes)
  \/ PersonalizationEnds({FetchBody(200, << >>)})

InitMeta == construct(MetaInputs) /\ StoredSession

SpecMeta == InitMeta /\ [][NextMeta]_vars


\* Responses with an error status: network reads the body whatever the
\* status is.
StatusOutcomes ==
  {Rejected, ObjectBody(Undefined, Undefined), ObjectBody("v1", Undefined),
   StatusBody(500, Undefined, Undefined), StatusBody(500, "v1", Undefined),
   StatusBody(500, Undefined, "s1")}

NextStatus ==
  \/ PushDataPoint
  \/ NetworkEnds(StatusOutcomes)
  \/ PersonalizationEnds({FetchBody(200, << >>)})

SpecStatus == InitQuiet /\ [][NextStatus]_vars


\* Batches whose requests may be answered with an error status.
NextBatchStatus ==
  \/ PushDataPoints
  \/ NetworkEnds(StatusOutcomes)
  \/ PersonalizationEnds({FetchBody(200, << >>)})

SpecBatchStatus == InitBatch /\ [][NextBatchStatus]_vars

\* Sessions: the page calls newSession while the constructor's request may
\* still be in flight.
SessionOutcomes ==
  {Rejected, ObjectBody(Undefined, Undefined), ObjectBody(Undefined, "s1"),
   ObjectBody("v1", "s1"), ObjectBody(Undefined, "s2")}

NextSession ==
  \/ NewSession
  \/ PushAction
  \/ NetworkEnds(SessionOutcomes)
  \/ PersonalizationEnds({FetchBody(200, << >>)})

SpecSession == InitQuiet /\ [][NextSession]_vars


\* Page views on their own, on a page that declares no interests: the page
\* opens and closes views while the constructor's requests end.
NoInterests == metas = << >>

InitViews == Init /\ NoInterests

NewPageViews == newPageView(MaxViews)

Unloads == unload(MaxViews)

NextViews ==
  \/ NewPageViews
  \/ Unloads
  \/ NetworkEnds(PageOutcomes)
  \/ PersonalizationEnds({FetchBody(200, << >>)})

SpecViews == InitViews /\ [][NextViews]_vars


\* The document under repeated refreshes: personalize is on, every response
\* is a success, and the fetch returns one of several lists.
DomLists == { << >>, << PsSlot >>, << PsEach >>, << PsBody, PsSlot >> }
DomOutcomes == {ObjectBody(Undefined, Undefined), ObjectBody("v1", Undefined)}
DomFetches == {FetchRejected} \cup {FetchBody(200, l) : l \in DomLists}

NextDom ==
  \/ PushDataPoint
  \/ NetworkEnds(DomOutcomes)
  \/ PersonalizationEnds(DomFetches)

PersonalizeOn == personalize = TRUE

InitDom == Init /\ QuietPage /\ PersonalizeOn

SpecDom == InitDom /\ [][NextDom]_vars

\* Scripts under repeated refreshes: the fetch returns a variant with a
\* script, a variant that replaces the contents of the body, or both.
ScriptLists == { << PsEach >>, << PsWipe >>, << PsEach, PsWipe >> }
ScriptFetches == {FetchBody(200, l) : l \in ScriptLists}

NextScripts ==
  \/ PushDataPoint
  \/ NetworkEnds(DomOutcomes)
  \/ PersonalizationEnds(ScriptFetches)

SpecScripts == InitDom /\ [][NextScripts]_vars

\* Overlapping signal dispatches: the session is stored, so the requests in
\* flight are those of the page's own dispatches, and all of them succeed.
PushDataPointsOverlapping == dispatch(MaxSignals, "pushDataPoint", Undefined)

PushActionsOverlapping == dispatch(MaxSignals, "pushAction", Undefined)

NextOverlap ==
  \/ PushDataPointsOverlapping
  \/ PushActionsOverlapping
  \/ NetworkEnds(DomOutcomes)
  \/ PersonalizationEnds(DomFetches)

InitOverlap == Init /\ QuietPage /\ PersonalizeOn /\ StoredSession

SpecOverlap == InitOverlap /\ [][NextOverlap]_vars

(***************************************************************************)
(* The revision with source attribution (src/unnamed/part_003).  The       *)
(* identifier is contactRef, kept in localStorage; network catches its own *)
(* failures and, when a response carries a ref, stores it and starts the   *)
(* first personalization pass and the attribution.                         *)
(***************************************************************************)
\* x || y
Or(x, y) == IF Truthy(x) THEN x ELSE y

\* handlePersonalizations inserts the markup as it is
RawNode(html) == [tag |-> "span", id |-> "", cls |-> "", parent |-> "", body |-> html]

RECURSIVE InsertPersonalizations(_, _)
InsertPersonalizations(doc, personalizations) ==
  IF personalizations = << >> THEN doc
  ELSE InsertPersonalizations(
         InsertPersonalization(doc, Head(personalizations),
                               RawNode(Head(personalizations).html)),
         Tail(personalizations))

\* registerSource up to its await: a request only when there is a contactRef
registerSource(id, ref, by) ==
  IF Truthy(ref) THEN {Request(id, "network", "registerSource", ref, ref, by, 0)} ELSE {}

\* handlePersonalizations up to its await
attributionRefresh(ref, by) ==
  {Request(0, "personalization", "handlePersonalizations", ref, ref, by, 0)}

\* the pages of the rest of the client are not part of this revision
NoClient ==
  /\ pid = Undefined
  /\ sid = Undefined
  /\ cookies = [k \in {COOKIE_PID_KEY, COOKIE_SID_KEY} |-> NoCookie]
  /\ pageView = NoPageView
  /\ dpDelayTimerId = 0
  /\ metas = << >>
  /\ sendBeacon = FALSE
  /\ timers = {}
  /\ listeners = 0
  /\ batches = << >>
  /\ lastBeacon = NoBeacon
  /\ nbeacons = 0
  /\ sessionRequests = 0
  /\ escaped = FALSE
  /\ clock = 0
  /\ openViews = 0
  /\ viewsOpened = 0
  /\ lastClosed = NoPageView
  /\ lastPageOp = ""

client ==
  << pid, sid, cookies, pageView, dpDelayTimerId, metas, sendBeacon, timers, listeners,
     batches, lastBeacon, nbeacons, sessionRequests, escaped, clock, views,
     constructed >>

StoredRefs == {Null, "v0"}

\* the constructor
InitAttribution ==
  \E on \in BOOLEAN, r0 \in StoredRefs :
    LET first == IF on /\ Truthy(r0) THEN attributionRefresh(r0, 0) ELSE {}
        second == registerSource(1, r0, 0)
    IN /\ NoClient
       /\ constructed = TRUE
       /\ personalize = on
       /\ profilerRef = r0
       /\ contactRef = r0
       /\ refAtStart = r0
       /\ hasPersonalized = FALSE
       /\ hasRegisteredSource = (second # {})
       /\ sourceRequests = Cardinality(second)
       /\ ingestRefreshes = 0
       /\ calls = first \cup second
       /\ nextId = 2
       /\ document = InitialDocument
       /\ ncalls = 0
       /\ lastRef = Undefined
       /\ lastDone = NoneDone

\* push and updateContact: opts.contactRef || this.contactRef names the contact
AttributionDispatch(op) ==
  \E r \in StoredRefs :
    /\ ncalls < MaxCalls
    /\ calls' = calls \cup {Request(nextId, "network", op, Or(r, contactRef), contactRef, 0, 0)}
    /\ nextId' = nextId + 1
    /\ ncalls' = ncalls + 1
    /\ UNCHANGED << client, personalize, document, lastDone, lastRef, attribution >>

Push == AttributionDispatch("push")

UpdateContact == AttributionDispatch("updateContact")

\* the public registerSource
RegisterSource ==
  /\ ncalls < MaxCalls
  /\ calls' = calls \cup registerSource(nextId, contactRef, 0)
  /\ hasRegisteredSource' = (hasRegisteredSource \/ registerSource(nextId, contactRef, 0) # {})
  /\ sourceRequests' = sourceRequests + Cardinality(registerSource(nextId, contactRef, 0))
  /\ nextId' = nextId + 1
  /\ ncalls' = ncalls + 1
  /\ UNCHANGED << client, personalize, document, lastDone, lastRef, contactRef,
                  profilerRef, hasPersonalized, ingestRefreshes, refAtStart >>

\* network after its awaits: json.ref && window && 'localStorage' in window
\* (reading ref of a null body throws, which network catches)
CarriesRef(out) == out.kind = "object" /\ Truthy(out.ref)

\* whether network then calls registerSource
AttributesOnIngest(registered, ref) == ~registered /\ Truthy(ref)

\* whether network then calls handlePersonalizations
PersonalizesOnIngest(on, done, ref) == on /\ ~done /\ Truthy(ref)

AttributionNetworkEnds ==
  \E c \in calls :
    /\ c.kind = "network"
    /\ \E out \in NetworkOutcomes(c.op) :
         LET refresh == IF CarriesRef(out)
                           /\ PersonalizesOnIngest(personalize, hasPersonalized, out.ref)
                        THEN attributionRefresh(out.ref, c.id) ELSE {}
             source == IF CarriesRef(out) /\ AttributesOnIngest(hasRegisteredSource, out.ref)
                       THEN registerSource(nextId, out.ref, c.id) ELSE {}
         IN /\ contactRef' = IF CarriesRef(out) THEN out.ref ELSE contactRef
            /\ profilerRef' = IF CarriesRef(out) THEN out.ref ELSE profilerRef
            /\ lastRef' = IF CarriesRef(out) THEN out.ref ELSE lastRef
            /\ calls' = (calls \ {c}) \cup refresh \cup source
            /\ hasRegisteredSource' = (hasRegisteredSource \/ source # {})
            /\ sourceRequests' = sourceRequests + Cardinality(source)
            /\ ingestRefreshes' = ingestRefreshes + Cardinality(refresh)
            /\ nextId' = nextId + Cardinality(source)
            /\ lastDone' = Done(c.id, c.op, "ok", refresh # {}, out, FetchRejected, << >>)
            /\ UNCHANGED << client, personalize, document, ncalls, hasPersonalized,
                            refAtStart >>

AttributionPersonalizationEnds ==
  \E c \in calls :
    /\ c.kind = "personalization"
    /\ \E out \in FetchOutcomes(PersonalizationLists) :
         LET res == getPersonalizationsResult(out)
         IN /\ calls' = calls \ {c}
            /\ document' = InsertPersonalizations(document, res.list)
            /\ hasPersonalized' = TRUE
            /\ lastDone' = Done(c.id, c.op, res.st, FALSE, Rejected, out, res.list)
            /\ UNCHANGED << client, personalize, ncalls, nextId, lastRef, contactRef,
                            profilerRef, hasRegisteredSource, sourceRequests,
                            ingestRefreshes, refAtStart >>

NextAttribution ==
  \/ Push
  \/ UpdateContact
  \/ RegisterSource
  \/ AttributionNetworkEnds
  \/ AttributionPersonalizationEnds

SpecAttribution == InitAttribution /\ [][NextAttribution]_vars

(***************************************************************************)
(* The earliest revision (src/unnamed/part_000).  It keeps no identifier.  *)
(* The constructor checks personalize before its own call of               *)
(* handlePersonalizations; handlePersonalizations itself checks nothing,   *)
(* and registerSource, readMeta (through pushDataPoints) and every push    *)
(* call it once their requests have been answered.                         *)
(***************************************************************************)
\* handlePersonalizations up to its await, started by the request by or by
\* the batch
earlyRefresh(by, batch) ==
  {Request(0, "personalization", "handlePersonalizations", Undefined, Undefined, by,
           batch)}

\* the constructor, on a page without profiler:interests tags: readMeta's
\* batch is empty, Promise.all of nothing is fulfilled, and its refresh starts
\* before the constructor's caller goes on
InitEarly ==
  \E on \in BOOLEAN :
    LET first == IF on THEN earlyRefresh(0, 0) ELSE {}
        second == {Request(1, "network", "registerSource", Undefined, Undefined, 0, 0)}
        third == earlyRefresh(0, 1)
    IN /\ NoClient
       /\ constructed = TRUE
       /\ personalize = on
       /\ profilerRef = Null
       /\ contactRef = Null
       /\ refAtStart = Null
       /\ hasPersonalized = FALSE
       /\ hasRegisteredSource = TRUE
       /\ sourceRequests = 1
       /\ ingestRefreshes = 0
       /\ calls = first \cup second \cup third
       /\ nextId = 2
       /\ document = InitialDocument
       /\ ncalls = 0
       /\ lastRef = Undefined
       /\ lastDone = NoneDone

\* pushDataPoint and pushAction up to their await
EarlyDispatch(op) ==
  /\ ncalls < MaxSignals
  /\ calls' = calls \cup {Request(nextId, "network", op, Undefined, Undefined, 0, 0)}
  /\ nextId' = nextId + 1
  /\ ncalls' = ncalls + 1
  /\ UNCHANGED << client, personalize, document, lastDone, lastRef, attribution >>

EarlyPushDataPoint == EarlyDispatch("pushDataPoint")

EarlyPushAction == EarlyDispatch("pushAction")

\* network returns the response unread: whatever the server answers, the
\* caller goes on to handlePersonalizations; a rejected fetch is caught
EarlyNetworkEnds ==
  \E c \in calls :
    /\ c.kind = "network"
    /\ \E out \in {Rejected, NullBody} :
         LET refresh == IF out = Rejected THEN {} ELSE earlyRefresh(c.id, 0)
         IN /\ calls' = (calls \ {c}) \cup refresh
            /\ lastDone' = Done(c.id, c.op, IF out = Rejected THEN "rejected" ELSE "ok",
                                refresh # {}, out, FetchRejected, << >>)
            /\ UNCHANGED << client, personalize, document, ncalls, nextId, lastRef,
                            attribution >>

\* handlePersonalizations after its await
EarlyPersonalizationEnds ==
  \E c \in calls :
    /\ c.kind = "personalization"
    /\ \E out \in FetchOutcomes(PersonalizationLists) :
         LET res == getPersonalizationsResult(out)
         IN /\ calls' = calls \ {c}
            /\ document' = Refresh(document, res.list)
            /\ hasPersonalized' = TRUE
            /\ lastDone' = Done(c.id, c.op, res.st, FALSE, Rejected, out, res.list)
            /\ UNCHANGED << client, personalize, ncalls, nextId, lastRef, contactRef,
                            profilerRef, hasRegisteredSource, sourceRequests,
                            ingestRefreshes, refAtStart >>

NextEarly ==
  \/ EarlyPushDataPoint
  \/ EarlyPushAction
  \/ EarlyNetworkEnds
  \/ EarlyPersonalizationEnds

SpecEarly == InitEarly /\ [][NextEarly]_vars

\* Storage that may be out of reach: where the page may not touch
\* document.cookie (a sandboxed frame), cookies.get and cookies.set throw.
\* The constructor's first statement after the options is readPidFromCookie,
\* and nothing catches what it throws: new Profiler(...) throws, and the page
\* holds no instance.
Unconstructed ==
  \E on \in BOOLEAN :
    /\ NoClient
    /\ constructed = FALSE
    /\ personalize = on
    /\ document = InitialDocument
    /\ calls = {}
    /\ nextId = 1
    /\ ncalls = 0
    /\ lastRef = Undefined
    /\ lastDone = NoneDone
    /\ contactRef = Null
    /\ profilerRef = Null
    /\ hasPersonalized = FALSE
    /\ hasRegisteredSource = FALSE
    /\ sourceRequests = 0
    /\ ingestRefreshes = 0
    /\ refAtStart = Null

StorageThrows == {FALSE, TRUE}

InitStorage ==
  \E throws \in StorageThrows : IF throws THEN Unconstructed ELSE InitQuiet

\* the page can call the instance only if it has one
NextStorage ==
  /\ constructed
  /\ \/ PushDataPoint
     \/ NetworkCompletes
     \/ PersonalizationCompletes

SpecStorage == InitStorage /\ [][NextStorage]_vars

(***************************************************************************)
(* The claims.                                                             *)
(***************************************************************************)
NetworkInFlight == {c \in calls : c.kind = "network"}
FetchesInFlight == {c \in calls : c.kind = "personalization"}
SignalOps == {"updateProfile", "pushDataPoint", "pushAction"}

\* C1: once a response has delivered a ref, the identifier in memory is the
\* ref of the response that completed last among those that delivered one,
\* whatever the order in which overlapping requests complete, and the cookie
\* holds the same value.
C1_LatestRefWins ==
  lastRef # Undefined =>
    pid = lastRef /\ CookieGet(cookies, COOKIE_PID_KEY) = lastRef

\* the constructor's new-session request, dispatched first, completes after
\* the page's own dispatch and delivers v2, which is then the identifier
C1_Witness ==
  /\ ncalls >= 1
  /\ NetworkInFlight = {}
  /\ lastDone.id = 1 /\ lastDone.net.ref = "v2"
  /\ pid = "v2"
  /\ CookieGet(cookies, COOKIE_PID_KEY) = "v2"

\* C2: at most one contacts/new-session request is issued in a lifetime,
\* over the constructor's call and any later call of newSession.
C2_OneSessionRequest == sessionRequests <= 1

\* C3: at most one attribution request is issued in a lifetime; when the
\* constructor found no identifier and a response has since delivered one,
\* exactly one was issued, and it names an identifier.
C3_AttributionOnce ==
  /\ sourceRequests <= 1
  /\ (~Truthy(refAtStart) /\ lastRef # Undefined) => sourceRequests = 1
  /\ \A c \in calls : c.op = "registerSource" => Truthy(c.ref)

\* C14: network starts a refresh on ingesting a ref at most once in a
\* lifetime, and only with personalization enabled.
C14_IngestRefreshOnce ==
  /\ ingestRefreshes <= 1
  /\ ingestRefreshes > 0 => personalize

\* C15: construction completes whether or not storage can be read.
C15_StorageNonFatal == constructed

\* C16: when a request of a signal dispatch ends in a transport failure, the
\* visitor and session identifiers stay as they were and the dispatch starts
\* no refresh.
C16_FailureIsNoOp ==
  [][\A c \in NetworkInFlight :
       (c \notin calls' /\ lastDone'.id = c.id /\ c.op \in SignalOps
          /\ TransportFailed(lastDone'.net)) =>
         /\ pid' = pid
         /\ sid' = sid
         /\ ~lastDone'.refreshed
         /\ \A f \in calls' \ calls : f.by # c.id]_vars

\* C17: sid changes only from unset, only to the sessionId of the
\* new-session response that has just ended; a set sid equals the stored
\* cookie, and while sid is set no new-session request is issued.
C17_SessionSetOnce ==
  /\ [](Truthy(sid) => CookieGet(cookies, COOKIE_SID_KEY) = sid)
  /\ [][(sid' # sid => (/\ ~Truthy(sid)
                         /\ lastDone'.op = "newSession"
                         /\ lastDone'.net.sessionId = sid'))
         /\ (Truthy(sid) => sessionRequests' = sessionRequests)]_vars

\* C18: once a ref has been ingested, the identifier cookie it was written
\* to expires after more than 365 days.
C18_MultiYearExpiry ==
  lastRef # Undefined => cookies[COOKIE_PID_KEY].expires > 365

NotMarker(n) == ~IsMarker(n)

\* the document without any node of the marker class
StripMarkers(doc) == SelectSeq(doc, NotMarker)

\* C4: a refresh leaves as many nodes of the marker class as applying what
\* it fetched to the document without any such node does: none of an earlier
\* refresh remains.
C4_OneGeneration ==
  [][\A c \in calls :
       (c.op = "handlePersonalizations" /\ calls' = calls \ {c}) =>
         MarkerCount(document') =
           MarkerCount(ApplyPersonalizations(StripMarkers(document), lastDone'.result))]_vars

\* the nodes of the marker class, in document order
Markers(doc) == SelectSeq(doc, IsMarker)

\* C19: when two overlapping dispatches have both succeeded and every refresh
\* has completed, the nodes of the marker class are those the refresh whose
\* fetch resolved last inserted, and no others.
C19_LastRefreshWins ==
  (ncalls = 2 /\ calls = {} /\ lastDone.op = "handlePersonalizations") =>
    Markers(document) = Markers(ApplyPersonalizations(InitialDocument, lastDone.result))

\* C20: a personalization fetch is issued in the step that ends the request
\* of its dispatch, after the response was ingested: it carries the ref of
\* that response if there is one, and never an older ref than the last one
\* delivered.
C20_IngestBeforeRefresh ==
  [][\A f \in calls' \ calls :
       f.kind = "personalization" =>
         /\ lastDone'.id = f.by
         /\ lastDone'.net.kind # "rejected"
         /\ Truthy(lastDone'.net.ref) => f.ref = lastDone'.net.ref
         /\ lastRef' # Undefined => f.ref = lastRef']_vars

\* the response of a pushDataPoint delivered v2, which was stored, and the
\* fetch of its refresh carries v2
C20_Witness ==
  /\ lastDone.op = "pushDataPoint" /\ lastDone.net.ref = "v2"
  /\ CookieGet(cookies, COOKIE_PID_KEY) = "v2"
  /\ \E f \in FetchesInFlight : f.by = lastDone.id /\ f.ref = "v2"

\* C5: no public operation hands a rejected promise to its caller.
C5_NothingEscapes == ~escaped

\* C6: a truthy identifier stays truthy, and the identifier changes only to
\* the truthy ref of the response that has just completed.
C6_NeverCleared ==
  [][/\ Truthy(pid) => Truthy(pid')
     /\ pid' # pid =>
          /\ lastDone'.net.kind = "object"
          /\ Truthy(lastDone'.net.ref)
          /\ pid' = lastDone'.net.ref]_vars

\* a response with an empty ref has completed and the identifier is still set
C6_Witness ==
  /\ lastDone.st = "ok" /\ lastDone.net.kind = "object" /\ lastDone.net.ref = ""
  /\ Truthy(pid)

C8_RefreshAfterSuccess ==
  /\ (lastDone.op \in SignalOps /\ lastDone.st = "ok") =>
        /\ lastDone.refreshed
        /\ personalize =>
             \E f \in FetchesInFlight :
               f.op = "handlePersonalizations" /\ f.by = lastDone.id
  /\ \A c \in NetworkInFlight : \A f \in FetchesInFlight : f.by # c.id

\* a dispatch whose response carried no ref has resolved and its refresh is
\* being fetched
C8_Witness ==
  /\ lastDone.op = "pushAction" /\ lastDone.st = "ok"
  /\ lastDone.net.ref = Undefined
  /\ \E f \in FetchesInFlight : f.by = lastDone.id

BatchCalls(b) == {c \in NetworkInFlight : c.batch = b}
BatchFetches(b) == {c \in FetchesInFlight : c.batch = b}

\* C9: a batch of n data points issues n requests, all of them before any
\* has settled; while one is unsettled the batch has started no refresh;
\* when all have resolved it has started exactly one.
C9_BatchFanOut ==
  \A b \in 1..Len(batches) :
    /\ batches[b].issued = batches[b].n
    /\ Cardinality(BatchCalls(b)) = batches[b].left
    /\ batches[b].left > 0 => batches[b].refreshes = 0 /\ BatchFetches(b) = {}
    /\ (batches[b].left = 0 /\ ~batches[b].rejected) => batches[b].refreshes = 1
    /\ batches[b].refreshes <= 1

\* a batch of the largest size has resolved and started its one refresh
C9_Witness ==
  \E b \in 1..Len(batches) :
    /\ batches[b].n = MaxBatch
    /\ batches[b].left = 0 /\ ~batches[b].rejected
    /\ batches[b].refreshes = 1
    /\ personalize => BatchFetches(b) # {}

\* C10: getPersonalizations never rejects; it returns the parsed list when
\* the status is 200 and the body parses, and the empty list otherwise.
C10_FetchResult ==
  lastDone.op \in {"getPersonalizations", "handlePersonalizations"} =>
    /\ lastDone.st = "ok"
    /\ lastDone.result =
         IF lastDone.fetch.kind = "json" /\ lastDone.fetch.status = 200
         THEN lastDone.fetch.list ELSE << >>

\* a status 500 with a parsable list has been answered by the empty list
C10_Witness ==
  /\ lastDone.op = "getPersonalizations"
  /\ lastDone.fetch.kind = "json" /\ lastDone.fetch.status = 500
  /\ lastDone.fetch.list # << >>
  /\ lastDone.result = << >>

\* C11: never more than one page view is open, and a newPageView that finds
\* one open closes it (exit stamped, beacon step run) no later than it opens
\* the new one.
C11_ClosesBeforeOpening ==
  /\ [](openViews <= 1)
  /\ [][(lastPageOp' = "newPageView" /\ ncalls' # ncalls) =>
         /\ pageView'.open /\ pageView'.enter = clock
         /\ openViews' = 1
         /\ pageView.open =>
              /\ lastClosed' = [pageView EXCEPT !.exit = clock]
              /\ lastClosed'.exit <= pageView'.enter
              /\ (sendBeacon /\ IsString(pid)) =>
                   /\ nbeacons' = nbeacons + 1
                   /\ lastBeacon'.url = pageView.url
                   /\ lastBeacon'.exit = clock]_vars

\* a second view was opened over the constructor's, which was closed with a
\* beacon
C11_Witness ==
  /\ lastPageOp = "newPageView"
  /\ pageView.open /\ pageView.enter > 0
  /\ lastClosed.url = LOCATION /\ lastClosed.enter = 0 /\ lastClosed.exit = pageView.enter
  /\ nbeacons = 1 /\ lastBeacon.exit = lastClosed.exit

\* C12: the unload handler's endPageView leaves no page view open; any
\* endPageView sends a beacon exactly when a view was open, sendBeacon exists
\* and the visitor identifier is a string, and the beacon carries ref, url,
\* enter, exit and the session id if there is one.
C12_EndPageView ==
  [][clock' # clock =>
       /\ lastPageOp' = "unload" => (~pageView'.open /\ openViews' = 0)
       /\ nbeacons' \in {nbeacons, nbeacons + 1}
       /\ nbeacons' = nbeacons + 1 <=> (pageView.open /\ sendBeacon /\ IsString(pid))
       /\ nbeacons' = nbeacons + 1 =>
            /\ lastBeacon'.ref = pid
            /\ lastBeacon'.url = pageView.url
            /\ lastBeacon'.enter = pageView.enter
            /\ lastBeacon'.exit = clock
            /\ lastBeacon'.sessionId = IF Truthy(sid) THEN sid ELSE Undefined]_vars

\* the page was unloaded twice: the first time sent the beacon of the
\* constructor's view with a session id, the second found no view open
C12_Witness ==
  /\ ncalls = 2 /\ lastPageOp = "unload"
  /\ ~pageView.open
  /\ lastClosed.url = LOCATION /\ lastClosed.enter = 0
  /\ nbeacons = 1 /\ lastBeacon.sessionId # Undefined
  /\ lastBeacon.exit = lastClosed.exit

\* C13: one unload listener is registered, whatever newPageView calls follow
\* the construction.
C13_OneListener == listeners = 1

C13_Witness ==
  /\ ncalls = 2 /\ lastPageOp = "newPageView"
  /\ lastClosed.enter > 0
  /\ listeners = 1

\* the children of a target that are not scripts, in order
Kids(doc, t) == SelectSeq(doc, LAMBDA n : n.parent = t /\ n.tag # "script")

\* the marker-wrapped copy of a variant's markup, as a child of a target
Wrapped(ps, t) ==
  [tag |-> "span", id |-> "", cls |-> "__prfPrs", parent |-> t, body |-> ps.html]

\* the elements a variant's selector matches: the body when there is none
Targets(doc, ps) ==
  IF ps.htmlQuerySelector.by = "none" THEN {"body"}
  ELSE {n.id : n \in {m \in Range(doc) :
                        /\ m.tag = "div"
                        /\ \/ ps.htmlQuerySelector.by = "id"
                              /\ m.id = ps.htmlQuerySelector.name
                           \/ ps.htmlQuerySelector.by = "class"
                              /\ m.cls = ps.htmlQuerySelector.name}}

\* what applying one variant to d1 must have done to every target in d2
VariantDone(d1, ps, d2) ==
  Truthy(ps.html) =>
    \A t \in Targets(d1, ps) :
      CASE ps.htmlPlacement = "replace" -> Kids(d2, t) = << Wrapped(ps, t) >>
        [] ps.htmlPlacement = "afterbegin" ->
             Kids(d2, t) = << Wrapped(ps, t) >> \o Kids(d1, t)
        [] OTHER -> Kids(d2, t) = Kids(d1, t) \o << Wrapped(ps, t) >>

RECURSIVE AllDone(_, _)
AllDone(d, list) ==
  \/ list = << >>
  \/ /\ VariantDone(d, Head(list), ApplyPersonalization(d, Head(list)))
     /\ AllDone(ApplyPersonalization(d, Head(list)), Tail(list))

\* C21: a refresh applies the fetched variants in order, and each variant
\* with markup acts on every target of its selector (the body when it has
\* none): replace leaves the target with exactly one wrapped copy as its
\* contents, afterbegin puts one wrapped copy first, and the default puts one
\* wrapped copy last.
C21_EveryTarget ==
  [][\A c \in calls :
       (c.op = "handlePersonalizations" /\ calls' = calls \ {c}) =>
         /\ AllDone(removePersonalizations(document), lastDone'.result)
         /\ document' =
              ApplyPersonalizations(removePersonalizations(document), lastDone'.result)]_vars

\* the scenario: the constructor found no identifier (its own fetch is still
\* out, without one), the first response delivered v1, and the refresh that
\* followed fetched the replace variant for #slot
C21_Witness ==
  /\ \E f \in FetchesInFlight : f.by = 0 /\ f.pidAt = Undefined
  /\ pid = "v1" /\ CookieGet(cookies, COOKIE_PID_KEY) = "v1"
  /\ lastDone.op = "handlePersonalizations" /\ lastDone.result = << PsSlot >>
  /\ Kids(document, "slot") = << Wrapped(PsSlot, "slot") >>

\* the script elements of the document
Scripts(doc) == SelectSeq(doc, LAMBDA n : n.tag = "script")

\* the fetched variants that have a script body
WithScript(list) == SelectSeq(list, LAMBDA ps : Truthy(ps.js))

\* C22: the number of script elements never decreases, and a completed
\* refresh adds one script element per fetched variant with a script body.
C22_ScriptsStay ==
  [][/\ Len(Scripts(document')) >= Len(Scripts(document))
     /\ \A c \in calls :
          (c.op = "handlePersonalizations" /\ calls' = calls \ {c}) =>
            Len(Scripts(document')) =
              Len(Scripts(document)) + Len(WithScript(lastDone'.result))]_vars

Named(dps) == SelectSeq(dps, LAMBDA dp : dp.dataPoint # << >>)

\* one data point per segment of every content, named or not
RECURSIVE PerSegment(_)
PerSegment(ms) ==
  IF ms = << >> THEN << >>
  ELSE LET segments == Split(Head(ms), ",")
       IN [k \in 1..Len(segments) |->
             LET parts == Split(segments[k], ":")
             IN [dataPoint |-> parts[1],
                 value |-> IF Len(parts) > 1 THEN parseInt(parts[2]) ELSE NoValue]]
          \o PerSegment(Tail(ms))

\* C24: a pending metadata timeout holds one data point per well-formed
\* segment, in order, with its weight or none, and nothing for an empty
\* segment or an empty content; it is pushed as one batch.
C24_WellFormedSegments ==
  /\ \A t \in timers : t.dps = Named(PerSegment(metas)) /\ Len(t.dps) > 0
  /\ \A b \in 1..Len(batches) : batches[b].n = Len(Named(PerSegment(metas)))

\* C25: with personalize false no personalization fetch is in flight and the
\* document is the page's own, whatever was called and answered.
C25_DisabledIsInert ==
  ~personalize => FetchesInFlight = {} /\ document = InitialDocument

\* C26: a batch of pushDataPoints with a failed request (a network error, an
\* unreadable body, a non-success status) starts no refresh, neither when
\* the request fails nor when the others are answered; and a request of a
\* batch that succeeds with a ref has it ingested, in memory and in the
\* cookie, whatever became of the other requests of the batch.
C26_FailedBatch ==
  /\ \A b \in 1..Len(batches) :
       batches[b].failed => batches[b].refreshes = 0 /\ BatchFetches(b) = {}
  /\ (/\ lastDone.op = "pushDataPoints"
      /\ ~TransportFailed(lastDone.net)
      /\ lastDone.net.kind = "object"
      /\ Truthy(lastDone.net.ref))
       => pid = lastDone.net.ref /\ CookieGet(cookies, COOKIE_PID_KEY) = lastDone.net.ref

\* C27: no more beacons are sent than page views were opened; each beacon
\* reports a page view opened after the one the beacon before reported, so
\* no page view is reported twice; and an unload that finds no page view
\* open sends nothing.
C27_OneBeaconPerView ==
  /\ [](nbeacons <= viewsOpened)
  /\ [][/\ ((nbeacons' # nbeacons /\ nbeacons > 0)
              => lastBeacon'.enter > lastBeacon.enter)
         /\ ((lastPageOp' = "unload" /\ clock' # clock /\ ~pageView.open)
              => (nbeacons' = nbeacons /\ lastBeacon' = lastBeacon))]_vars

\* a second view was opened, which closed the first with a beacon; the unload
\* sent the beacon of the second: two views, two beacons
C27_Witness ==
  /\ viewsOpened = 2 /\ nbeacons = 2
  /\ lastPageOp = "unload" /\ ~pageView.open
  /\ lastBeacon.enter = lastClosed.enter /\ lastBeacon.enter > 0

\* the page was unloaded twice: the second unload found no page view open and
\* sent nothing
C27_WitnessUnload ==
  /\ ncalls = 2 /\ lastPageOp = "unload"
  /\ viewsOpened = 1 /\ nbeacons = 1
  /\ lastClosed.exit = clock - 2

\* C28: at most one timeout of a metadata batch is pending, whatever calls of
\* newPageView and readMeta were made.
C28_OnePending == Cardinality(timers) <= 1

=============================================================================
